---- MODULE Spec2Model ----
(***************************************************************************)
(* AmiaBlog: the content store (PostsManager), the post parser             *)
(* (parse_post), the two search strategies, the feed (RSSProvider) and the *)
(* template renderer (TemplateRenderer) of src/utils.py, the routes of     *)
(* src/main.py and the static generator of src/staticify.py, as state      *)
(* machines.                                                               *)
(*                                                                         *)
(* A string is a sequence of symbols.  A symbol is a one-character string  *)
(* ("a", "%", ".", "\n") or, in post documents, a string standing for a    *)
(* whole run of characters that never needs to be looked into: "---" (the  *)
(* three dashes) and the metadata lines "Ma", "Mb", ... (one YAML flow     *)
(* mapping each, see YamlTable).                                           *)
(***************************************************************************)
EXTENDS Naturals, Integers, Sequences, FiniteSets, TLC

VARIABLES
    \* PostsManager fields (src/utils.py:180-184)
    posts,          \* self.posts: insertion-ordered dict, as a sequence of Post
    tags,           \* self.tags: insertion-ordered dict, as a sequence of Tag
    search_index,   \* self.search_index: NoIndex (None) or Index(rows)
    search_method,  \* self.search_method
    \* the activation of load_posts
    pc,             \* position of the loader in load_posts
    dir,            \* the posts directory: filename -> document
    remaining,      \* files of the os.listdir iteration not yet visited
    build,          \* the build_search_index argument of the running/last call
    outcome,        \* how the last load_posts call ended
    constructed,    \* PostsManager.__init__ has returned
    snap,           \* the store as it was when the running/last call began
    \* a reader of the store
    obs,            \* the query a reader made on the current store, and its result
    \* parse_post
    content,        \* the argument of parse_post
    parsed,         \* what parse_post returned (or that it raised)
    \* TemplateRenderer
    source,         \* template directory: template name -> version of its source
    cachedT,        \* self.templates of the renderer with disable_cache=False
    freshT,         \* self.templates of the renderer with disable_cache=True
    stale,          \* names edited on disk after the caching renderer loaded them
    out,            \* the last render call and both renderers' results
    \* the application around them (src/main.py, src/staticify.py)
    total_posts,    \* renderer.static_params["total_posts"], once the renderer is made
    resp,           \* the last response of a route
    feed,           \* the last generate_rss call and the rss_parts it built
    listing,        \* a list of posts and what order_by returned for it, per key
    gen,            \* the activation of AmiaBlogStaticGenerator.render
    dest            \* the destination directory of the static generator

storeVars == <<posts, tags, search_index, search_method, pc, dir, remaining,
               build, outcome, constructed, snap, obs>>
parseVars == <<content, parsed>>
renderVars == <<source, cachedT, freshT, stale, out>>
appVars == <<total_posts, resp, feed, listing, gen, dest>>
vars == <<posts, tags, search_index, search_method, pc, dir, remaining,
          build, outcome, constructed, snap, obs, content, parsed,
          source, cachedT, freshT, stale, out,
          total_posts, resp, feed, listing, gen, dest>>

None == "None"

(***************************************************************************)
(* Strings and lists                                                       *)
(***************************************************************************)
Range(s) == {s[i] : i \in 1..Len(s)}

\* all sequences over S of length at most n
SeqUpTo(S, n) == UNION {[1..k -> S] : k \in 0..n}

\* str.split(sep) for a one-symbol separator: "" splits into [""]
RECURSIVE Split(_, _)
Split(s, sep) ==
    IF s = <<>> THEN << <<>> >>
    ELSE IF Head(s) = sep THEN << <<>> >> \o Split(Tail(s), sep)
    ELSE LET r == Split(Tail(s), sep)
         IN  << <<Head(s)>> \o Head(r) >> \o Tail(r)

\* sep.join(list)
RECURSIVE Join(_, _)
Join(list, sep) ==
    IF list = <<>> THEN <<>>
    ELSE IF Len(list) = 1 THEN list[1]
    ELSE list[1] \o <<sep>> \o Join(Tail(list), sep)

\* str.endswith(suffix)
EndsWith(s, suffix) ==
    /\ Len(s) >= Len(suffix)
    /\ SubSeq(s, Len(s) - Len(suffix) + 1, Len(s)) = suffix

\* list[:n]
Take(s, n) == SubSeq(s, 1, IF n < Len(s) THEN n ELSE Len(s))

\* str.lower() on the symbols of the model
LowerChar(c) ==
    CASE c = "A" -> "a"
      [] c = "X" -> "x"
      [] c = "Y" -> "y"
      [] c = "N" -> "n"
      [] OTHER -> c
Lower(s) == [i \in 1..Len(s) |-> LowerChar(s[i])]

\* needle in haystack (Python's substring test)
IsSubstring(needle, hay) ==
    \E i \in 0..(Len(hay) - Len(needle)) :
        SubSeq(hay, i + 1, i + Len(needle)) = needle

(***************************************************************************)
(* parse_post (src/utils.py:120-145)                                       *)
(***************************************************************************)
NL == "\n"
DASHES == "---"

Err(kind) == [err |-> kind, val |-> <<>>, hits |-> <<>>]
Ok(v) == [err |-> None, val |-> v, hits |-> <<>>]

\* What yaml.safe_load makes of each metadata line of the model: the keys the
\* mapping holds and their values.  "Mi" lacks the required key published.
AllKeys == {"title", "date", "last_modified", "tags", "description",
            "published", "author", "keywords"}
YamlTable(sym) ==
    CASE sym = "Ma" -> [keys |-> AllKeys \ {"keywords"},
                        title |-> <<"a">>, date |-> 1, last_modified |-> 2,
                        tags |-> << <<"x">> >>, published |-> TRUE,
                        keywords |-> <<>>]
      [] sym = "Mb" -> [keys |-> AllKeys,
                        title |-> <<"b">>, date |-> 2, last_modified |-> 1,
                        tags |-> << <<"x">>, <<"x">>, <<"y">> >>, published |-> TRUE,
                        keywords |-> << <<"a">> >>]
      [] sym = "Mu" -> [keys |-> AllKeys,
                        title |-> <<"a">>, date |-> 3, last_modified |-> 3,
                        tags |-> << <<"y">> >>, published |-> FALSE,
                        keywords |-> << <<"a">> >>]
      [] sym = "Mi" -> [keys |-> AllKeys \ {"published", "keywords"},
                        title |-> <<"a">>, date |-> 1, last_modified |-> 1,
                        tags |-> << <<"x">> >>, published |-> FALSE,
                        keywords |-> <<>>]
MetaSyms == {"Ma", "Mb", "Mu", "Mi"}

\* yaml.safe_load(text) and the metadata.get of line 142: a mapping when the
\* text is one flow mapping on a line of its own (blank lines around it are
\* allowed); None (no document), a scalar or a YAML error otherwise, each of which
\* makes line 141 or 142 raise.
SafeLoad(text) ==
    LET lines == Split(text, NL)
        full == {i \in 1..Len(lines) : lines[i] # <<>>}
    IN  IF /\ Cardinality(full) = 1
           /\ \A i \in full : Len(lines[i]) = 1 /\ lines[i][1] \in MetaSyms
        THEN [ok |-> TRUE, map |-> YamlTable(lines[CHOOSE i \in full : TRUE][1])]
        ELSE [ok |-> FALSE, map |-> <<>>]

\* PostMetadata.model_validate (lines 53-61, 144): every field but keywords is
\* required; keywords defaults to [].
RequiredKeys == AllKeys \ {"keywords"}
ModelValidate(map) ==
    IF RequiredKeys \subseteq map.keys
    THEN [ok |-> TRUE,
          meta |-> [title |-> map.title, date |-> map.date,
                    last_modified |-> map.last_modified, tags |-> map.tags,
                    published |-> map.published,
                    keywords |-> IF "keywords" \in map.keys
                                 THEN map.keywords ELSE <<>>]]
    ELSE [ok |-> FALSE, meta |-> <<>>]

\* The loop of lines 130-140: every line equal to "---" sets metadata_end and is
\* dropped (continue); the other lines go to metadata_lines before the first
\* "---" and to content_lines after it.
RECURSIVE SplitLoop(_, _, _, _)
SplitLoop(lines, metadata_end, metadata_lines, content_lines) ==
    IF lines = <<>>
    THEN [metadata_lines |-> metadata_lines, content_lines |-> content_lines]
    ELSE IF Head(lines) = <<DASHES>>
    THEN SplitLoop(Tail(lines), TRUE, metadata_lines, content_lines)
    ELSE IF ~metadata_end
    THEN SplitLoop(Tail(lines), metadata_end,
                   Append(metadata_lines, Head(lines)), content_lines)
    ELSE SplitLoop(Tail(lines), metadata_end,
                   metadata_lines, Append(content_lines, Head(lines)))

\* parse_post: (metadata, body), or an exception
ParsePost(text) ==
    LET sp == SplitLoop(Split(text, NL), FALSE, <<>>, <<>>)
        loaded == SafeLoad(Join(sp.metadata_lines, NL))
        valid == IF loaded.ok THEN ModelValidate(loaded.map)
                 ELSE [ok |-> FALSE, meta |-> <<>>]
    IN  IF valid.ok
        THEN [ok |-> TRUE, metadata |-> valid.meta,
              body |-> Join(sp.content_lines, NL)]
        ELSE [ok |-> FALSE, metadata |-> <<>>, body |-> <<>>]

(***************************************************************************)
(* PostsManager (src/utils.py:173-338)                                     *)
(***************************************************************************)
\* Optional[sqlite3.Connection]: None, or the open in-memory database with the
\* rows of its table posts in rowid order
NoIndex == [open |-> FALSE, rows |-> <<>>]
Index(rows) == [open |-> TRUE, rows |-> rows]

\* Optional[int]: None is <<>>, n is <<n>>
NoInt == <<>>
SomeInt(n) == <<n>>

\* dict[key] = value on an insertion-ordered dict kept as a sequence of
\* records with a field slug: an existing key keeps its place
DictSet(d, post) ==
    IF \E i \in 1..Len(d) : d[i].slug = post.slug
    THEN [i \in 1..Len(d) |-> IF d[i].slug = post.slug THEN post ELSE d[i]]
    ELSE Append(d, post)

Slugs(ps) == {ps[i].slug : i \in 1..Len(ps)}

\* sorted(seq, key=..., reverse=desc), keys[i] being the key of seq[i]: Python's
\* sort is stable, and stays so under reverse=True
SortedBy(seq, keys, desc) ==
    LET n == Len(seq)
        before(j, i) ==
            \/ (IF desc THEN keys[j] > keys[i] ELSE keys[j] < keys[i])
            \/ (keys[j] = keys[i] /\ j < i)
        pos(i) == 1 + Cardinality({j \in 1..n : before(j, i)})
    IN  [p \in 1..n |-> seq[CHOOSE i \in 1..n : pos(i) = p]]

\* order_by (lines 324-338)
OrderKeys == {"date", "date_desc", "modified", "modified_desc"}
OrderByReverseDropped(ps, key) ==
    CASE key = "date" ->
            SortedBy(ps, [i \in 1..Len(ps) |-> ps[i].metadata.date], FALSE)
      [] key = "date_desc" ->
            SortedBy(ps, [i \in 1..Len(ps) |-> ps[i].metadata.date], FALSE)
      [] key = "modified" ->
            SortedBy(ps, [i \in 1..Len(ps) |-> ps[i].metadata.last_modified], FALSE)
      [] key = "modified_desc" ->
            SortedBy(ps, [i \in 1..Len(ps) |-> ps[i].metadata.last_modified], TRUE)

OrderBy(ps, key) ==
    CASE key = "date" ->
            SortedBy(ps, [i \in 1..Len(ps) |-> ps[i].metadata.date], FALSE)
      [] key = "date_desc" ->
            SortedBy(ps, [i \in 1..Len(ps) |-> ps[i].metadata.date], TRUE)
      [] key = "modified" ->
            SortedBy(ps, [i \in 1..Len(ps) |-> ps[i].metadata.last_modified], FALSE)
      [] key = "modified_desc" ->
            SortedBy(ps, [i \in 1..Len(ps) |-> ps[i].metadata.last_modified], TRUE)

\* slug = ".".join(filename.split(".")[:-1]) (line 214)
SlugOf(filename) ==
    LET parts == Split(filename, ".")
    IN  Join(SubSeq(parts, 1, Len(parts) - 1), ".")

DotMd == <<".", "m", "d">>

\* One turn of the loop of lines 203-215 on file `filename` holding `doc`:
\* "skip" (not .md, unparseable, unpublished), "stored", or "raise" when open/read
\* raises, which nothing in load_posts catches.
LoadOneNoPublishedCheck(ps, filename, doc) ==
    IF ~EndsWith(filename, DotMd) THEN [status |-> "skip", posts |-> ps]
    ELSE IF ~doc.readable THEN [status |-> "raise", posts |-> ps]
    ELSE LET p == ParsePost(doc.text)
         IN  IF ~p.ok THEN [status |-> "skip", posts |-> ps]
             ELSE [status |-> "stored",
                   posts |-> DictSet(ps, [metadata |-> p.metadata,
                                          content |-> p.body,
                                          slug |-> SlugOf(filename)])]

LoadOneParseErrorPropagates(ps, filename, doc) ==
    IF ~EndsWith(filename, DotMd) THEN [status |-> "skip", posts |-> ps]
    ELSE IF ~doc.readable THEN [status |-> "raise", posts |-> ps]
    ELSE LET p == ParsePost(doc.text)
         IN  IF ~p.ok THEN [status |-> "raise", posts |-> ps]
             ELSE IF ~p.metadata.published THEN [status |-> "skip", posts |-> ps]
             ELSE [status |-> "stored",
                   posts |-> DictSet(ps, [metadata |-> p.metadata,
                                          content |-> p.body,
                                          slug |-> SlugOf(filename)])]

LoadOne(ps, filename, doc) ==
    IF ~EndsWith(filename, DotMd) THEN [status |-> "skip", posts |-> ps]
    ELSE IF ~doc.readable THEN [status |-> "raise", posts |-> ps]
    ELSE LET p == ParsePost(doc.text)
         IN  IF ~p.ok THEN [status |-> "skip", posts |-> ps]
             ELSE IF ~p.metadata.published THEN [status |-> "skip", posts |-> ps]
             ELSE [status |-> "stored",
                   posts |-> DictSet(ps, [metadata |-> p.metadata,
                                          content |-> p.body,
                                          slug |-> SlugOf(filename)])]

\* _build_tag_index (lines 233-239): one increment per element of every post's
\* tag list, on top of what self.tags holds
RECURSIVE AddTags(_, _)
AddTags(tg, names) ==
    IF names = <<>> THEN tg
    ELSE LET t == Head(names)
             next == IF \E i \in 1..Len(tg) : tg[i].name = t
                     THEN [i \in 1..Len(tg) |->
                             IF tg[i].name = t
                             THEN [name |-> t, count |-> tg[i].count + 1]
                             ELSE tg[i]]
                     ELSE Append(tg, [name |-> t, count |-> 1])
         IN  AddTags(next, Tail(names))

RECURSIVE BuildTagIndex(_, _)
BuildTagIndex(ps, tg) ==
    IF ps = <<>> THEN tg
    ELSE BuildTagIndex(Tail(ps), AddTags(tg, Head(ps).metadata.tags))

\* _build_search_index (lines 241-259): one row per post, in posts order; the
\* slug is stored as it is, the other columns lower-cased
BuildSearchIndexOnOldDatabase(ps) ==
    snap.search_index.rows \o
    [i \in 1..Len(ps) |->
        [slug |-> ps[i].slug,
         title |-> Lower(ps[i].metadata.title),
         tags |-> Lower(Join(ps[i].metadata.tags, ",")),
         content |-> Lower(ps[i].content),
         keywords |-> Lower(Join(ps[i].metadata.keywords, ","))]]

BuildSearchIndex(ps) ==
    [i \in 1..Len(ps) |->
        [slug |-> ps[i].slug,
         title |-> Lower(ps[i].metadata.title),
         tags |-> Lower(Join(ps[i].metadata.tags, ",")),
         content |-> Lower(ps[i].content),
         keywords |-> Lower(Join(ps[i].metadata.keywords, ","))]]

\* SQLite's `text LIKE pattern`: "%" matches any run of characters, "_" any one
\* character, every other character itself, ASCII letters without regard to case
RECURSIVE Like(_, _)
Like(text, pattern) ==
    IF pattern = <<>> THEN text = <<>>
    ELSE IF Head(pattern) = "%"
    THEN Like(text, Tail(pattern)) \/ (text # <<>> /\ Like(Tail(text), pattern))
    ELSE /\ text # <<>>
         /\ (Head(pattern) = "_" \/ LowerChar(Head(pattern)) = LowerChar(Head(text)))
         /\ Like(Tail(text), Tail(pattern))

\* the parameter f"%{keyword}%" (lines 289, 299)
Wrap(keyword) == <<"%">> \o keyword \o <<"%">>

\* the WHERE clause of line 288
FullmatchRow(row, kw) ==
    \/ Like(row.slug, Wrap(kw))
    \/ Like(row.title, Wrap(kw))
    \/ Like(row.tags, Wrap(kw))
    \/ Like(row.keywords, Wrap(kw))

\* the WHERE clause of line 298: a row is selected once, however many of its
\* columns match
JiebaRowPerField(row, kw) ==
    Cardinality({c \in {"title", "tags", "content", "keywords"} :
                    Like(row[c], Wrap(kw))})

JiebaRow(row, kw) ==
    IF \/ Like(row.title, Wrap(kw))
       \/ Like(row.tags, Wrap(kw))
       \/ Like(row.content, Wrap(kw))
       \/ Like(row.keywords, Wrap(kw))
    THEN 1 ELSE 0

\* SELECT slug FROM posts WHERE ...: the matching rows' slugs in rowid order
RECURSIVE SelectFullmatch(_, _)
SelectFullmatch(rows, kw) ==
    IF rows = <<>> THEN <<>>
    ELSE (IF FullmatchRow(Head(rows), kw) THEN <<Head(rows).slug>> ELSE <<>>)
         \o SelectFullmatch(Tail(rows), kw)

\* lines 301-303 for one keyword: hits[slug] = hits.get(slug, 0) + 1 for every
\* fetched row; hits is an insertion-ordered dict, kept as a sequence
RECURSIVE CountRows(_, _, _)
CountRows(hits, rows, kw) ==
    IF rows = <<>> THEN hits
    ELSE LET slug == Head(rows).slug
             n == JiebaRow(Head(rows), kw)
             next == IF n = 0 THEN hits
                     ELSE IF \E i \in 1..Len(hits) : hits[i].slug = slug
                     THEN [i \in 1..Len(hits) |->
                             IF hits[i].slug = slug
                             THEN [slug |-> slug, n |-> hits[i].n + n]
                             ELSE hits[i]]
                     ELSE Append(hits, [slug |-> slug, n |-> n])
         IN  CountRows(next, Tail(rows), kw)

\* the loop of lines 296-303 over the keywords jieba returned
RECURSIVE CountHits(_, _, _)
CountHits(hits, rows, keywords) ==
    IF keywords = <<>> THEN hits
    ELSE CountHits(CountRows(hits, rows, Head(keywords)), rows, Tail(keywords))

\* self.posts[slug] for every slug of a list; a slug that is no key raises
Lookup(ps, slugs) ==
    IF \A i \in 1..Len(slugs) : slugs[i] \in Slugs(ps)
    THEN Ok([i \in 1..Len(slugs) |->
                ps[CHOOSE j \in 1..Len(ps) : ps[j].slug = slugs[i]]])
    ELSE Err("KeyError")

\* jieba_fast.lcut(text) cuts text into consecutive non-empty tokens; which
\* cut it makes is the library's business: any of these
RECURSIVE Segmentations(_)
Segmentations(text) ==
    IF text = <<>> THEN {<<>>}
    ELSE UNION {{<<SubSeq(text, 1, k)>> \o rest :
                    rest \in Segmentations(SubSeq(text, k + 1, Len(text)))} :
                k \in 1..Len(text)}

\* search (lines 277-314); seg is what jieba_fast.lcut returns for keyword.lower()
SearchNoIndexCheck(s, method, keyword, seg) ==
    IF ~s.search_index.open THEN Ok(<<>>)
    ELSE IF method = "fullmatch"
    THEN Lookup(s.posts, SelectFullmatch(s.search_index.rows, Lower(keyword)))
    ELSE LET hits == CountHits(<<>>, s.search_index.rows, seg)
             sorted == SortedBy(hits, [i \in 1..Len(hits) |-> hits[i].n], TRUE)
             found == Lookup(s.posts, [i \in 1..Len(sorted) |-> sorted[i].slug])
         IN  [found EXCEPT !.hits = hits]

Search(s, method, keyword, seg) ==
    IF ~s.search_index.open THEN Err("ValueError")
    ELSE IF method = "fullmatch"
    THEN Lookup(s.posts, SelectFullmatch(s.search_index.rows, Lower(keyword)))
    ELSE IF method = "jieba"
    THEN LET hits == CountHits(<<>>, s.search_index.rows, seg)
             sorted == SortedBy(hits, [i \in 1..Len(hits) |-> hits[i].n], TRUE)
             found == Lookup(s.posts, [i \in 1..Len(sorted) |-> sorted[i].slug])
         IN  [found EXCEPT !.hits = hits]
    ELSE Err("ValueError")

\* posts.get(slug) (src/main.py:58)
GetPost(s, slug) ==
    Ok(IF slug \in Slugs(s.posts)
       THEN <<s.posts[CHOOSE j \in 1..Len(s.posts) : s.posts[j].slug = slug]>>
       ELSE <<>>)

\* recent_posts (lines 271-272)
RecentPosts(s, n) == Ok(Take(OrderBy(s.posts, "modified_desc"), n))

\* get_posts and get_posts_by_tag (lines 274-275, 316-322)
RECURSIVE Filter(_, _)
Filter(ps, keep) ==
    IF ps = <<>> THEN <<>>
    ELSE (IF Head(ps).slug \in keep THEN <<Head(ps)>> ELSE <<>>)
         \o Filter(Tail(ps), keep)

GetPostsByTag(s, tag, limit) ==
    LET keep == {s.posts[i].slug : i \in
                    {j \in 1..Len(s.posts) :
                        \E k \in 1..Len(s.posts[j].metadata.tags) :
                            Lower(s.posts[j].metadata.tags[k]) = Lower(tag)}}
        results == Filter(s.posts, keep)
    IN  Ok(IF limit # NoInt THEN Take(results, limit[1]) ELSE results)

\* list_tags (lines 261-269)
ListTags(s, order_by) ==
    IF order_by = "default" THEN Ok(s.tags)
    ELSE Ok(SortedBy(s.tags, [i \in 1..Len(s.tags) |-> s.tags[i].count], TRUE))

\* generate_rss (lines 439-443, 481-505): the posts that get an <item>, in
\* item order
FeedPostsAscending(s, limit) ==
    LET ordered == OrderBy(s.posts, "modified")
    IN  Ok(IF limit # NoInt THEN Take(ordered, limit[1]) ELSE ordered)

FeedPosts(s, limit) ==
    LET ordered == OrderBy(s.posts, "modified_desc")
    IN  Ok(IF limit # NoInt THEN Take(ordered, limit[1]) ELSE ordered)

\* generate_rss (lines 432-509): rss_parts, with the channel's opening lines
\* (445-478) as one part, its closing lines (507-508) as one part and one part
\* for the lines of each <item> (481-505)
RssHeader ==
    [kind |-> "header", slug |-> <<>>, link |-> <<>>, pub_date |-> 0,
     categories |-> <<>>]
RssFooter ==
    [kind |-> "footer", slug |-> <<>>, link |-> <<>>, pub_date |-> 0,
     categories |-> <<>>]
RssItem(post, is_static) ==
    [kind |-> "item", slug |-> post.slug,
     link |-> <<"/post/">> \o post.slug \o (IF is_static THEN <<".html">> ELSE <<>>),
     pub_date |-> post.metadata.date,
     categories |-> post.metadata.tags]
GenerateRss(s, limit, is_static) ==
    LET ps == FeedPosts(s, limit).val
    IN  <<RssHeader>> \o [i \in 1..Len(ps) |-> RssItem(ps[i], is_static)]
        \o <<RssFooter>>

(***************************************************************************)
(* TemplateRenderer (src/utils.py:85-117)                                  *)
(***************************************************************************)
TemplateNames == {"index.html", "post.html"}
Missing == 0

\* Environment.get_template: the template compiled from the file as it is now
\* (jinja2 reloads a changed file); TemplateNotFound when there is none
GetTemplate(src, name) ==
    IF src[name] = Missing THEN [ok |-> FALSE, version |-> Missing]
    ELSE [ok |-> TRUE, version |-> src[name]]

\* context.update(static_params) (line 104): the static parameters win
ContextKeys == {"posts", "total_posts"}
Undefined == "undefined"
Update(context, static_params) ==
    [k \in ContextKeys |->
        IF static_params[k] # Undefined THEN static_params[k] ELSE context[k]]

\* Template.render and htmlmin.minify (lines 105-106): the text is a function of
\* the compiled template and the merged context
Minify(text) == [text EXCEPT !.minified = TRUE]
RenderTemplate(name, version, context) ==
    [ok |-> TRUE, name |-> name, version |-> version, context |-> context,
     minified |-> FALSE]
RenderError ==
    [ok |-> FALSE, name |-> "", version |-> Missing,
     context |-> [k \in ContextKeys |-> Undefined], minified |-> FALSE]

\* render_to_plain_text (lines 101-106) on a renderer whose self.templates is
\* `templates` (Missing for a name that is no key): the text or the exception,
\* and self.templates afterwards
RenderCacheTestInverted(templates, disable_cache, static_params, src, name, context) ==
    LET load == disable_cache /\ templates[name] = Missing
        got == GetTemplate(src, name)
    IN  IF load /\ ~got.ok THEN [text |-> RenderError, templates |-> templates]
        ELSE LET after == IF load THEN [templates EXCEPT ![name] = got.version]
                          ELSE templates
             IN  IF after[name] = Missing
                 THEN [text |-> RenderError, templates |-> after]
                 ELSE [text |-> Minify(RenderTemplate(name, after[name],
                                           Update(context, static_params))),
                       templates |-> after]

RenderToPlainText(templates, disable_cache, static_params, src, name, context) ==
    LET load == disable_cache \/ templates[name] = Missing
        got == GetTemplate(src, name)
    IN  IF load /\ ~got.ok THEN [text |-> RenderError, templates |-> templates]
        ELSE LET after == IF load THEN [templates EXCEPT ![name] = got.version]
                          ELSE templates
             IN  [text |-> Minify(RenderTemplate(name, after[name],
                                      Update(context, static_params))),
                  templates |-> after]

(***************************************************************************)
(* The store, its readers and load_posts as the steps a concurrent reader  *)
(* can fall between                                                        *)
(***************************************************************************)
Store == [posts |-> posts, tags |-> tags, search_index |-> search_index]
EmptyStore == [posts |-> <<>>, tags |-> <<>>, search_index |-> NoIndex]

\* a query of the routing layer (src/main.py) on the store
NoQuery == [op |-> "none", arg |-> <<>>, n |-> NoInt, seg |-> <<>>]
Q(op, arg, n, seg) == [op |-> op, arg |-> arg, n |-> n, seg |-> seg]
NoObs == [q |-> NoQuery, r |-> Ok(<<>>)]

Eval(q, s, method) ==
    CASE q.op = "get" -> GetPost(s, q.arg)
      [] q.op = "recent" -> RecentPosts(s, q.n[1])
      [] q.op = "by_tag" -> GetPostsByTag(s, q.arg, q.n)
      [] q.op = "list_tags" -> ListTags(s, q.arg[1])
      [] q.op = "search" -> Search(s, method, q.arg, q.seg)
      [] q.op = "feed" -> FeedPosts(s, q.n)

\* documents and directories
Absent == [exists |-> FALSE, readable |-> FALSE, text |-> <<>>]
Unreadable == [exists |-> TRUE, readable |-> FALSE, text |-> <<>>]
File(text) == [exists |-> TRUE, readable |-> TRUE, text |-> text]
DocA == File(<<"Ma", NL, DASHES, NL, "b">>)
DocB == File(<<"Mb", NL, DASHES, NL, "a">>)
DocU == File(<<"Mu", NL, DASHES, NL, "a">>)
DocBad == File(<<"Mi", NL, DASHES, NL, "a">>)
DocJunk == File(<<"b", NL, "a">>)

FileA == <<"a", ".", "m", "d">>
FileB == <<"b", ".", "m", "d">>
FileN == <<"n", ".", "t", "x", "t">>
Filenames == {FileA, FileB, FileN}
Dirs ==
    {[f \in Filenames |-> IF f = FileA THEN a ELSE IF f = FileB THEN b ELSE DocA] :
        a \in {Absent, DocA, DocU, DocBad, Unreadable},
        b \in {Absent, DocB, DocU, DocJunk}}
EmptyDir == [f \in Filenames |-> Absent]

MainQueries ==
    {Q("get", <<"a">>, NoInt, <<>>),
     Q("recent", <<>>, SomeInt(1), <<>>),
     Q("by_tag", <<"Y">>, NoInt, <<>>),
     Q("list_tags", <<"post_count">>, NoInt, <<>>),
     Q("search", <<"a">>, NoInt, << <<"a">> >>),
     Q("feed", <<>>, NoInt, <<>>)}

\* a reader runs one query on the store as it is
Query(q) ==
    /\ constructed
    /\ obs' = [q |-> q, r |-> Eval(q, Store, search_method)]
    /\ UNCHANGED <<posts, tags, search_index, search_method, pc, dir, remaining,
                   build, outcome, constructed, snap>>
    /\ UNCHANGED <<parseVars, renderVars, appVars>>

\* an exception leaves load_posts; one that leaves __init__ leaves no
\* PostsManager behind
Abort(kind, ps) ==
    /\ pc' = "idle"
    /\ outcome' = kind
    /\ posts' = IF constructed THEN ps ELSE <<>>

\* load_posts is called (by __init__ the first time) on directory d; line 196
LoadPosts(d, b) ==
    /\ pc = "idle"
    /\ dir' = d
    /\ build' = b
    /\ snap' = Store
    /\ posts' = <<>>
    /\ pc' = "clear_tags"
    /\ outcome' = "running"
    /\ obs' = NoObs
    /\ UNCHANGED <<tags, search_index, search_method, remaining, constructed>>
    /\ UNCHANGED <<parseVars, renderVars, appVars>>

\* line 197
ClearTags ==
    /\ pc = "clear_tags"
    /\ tags' = <<>>
    /\ pc' = "close_index"
    /\ obs' = NoObs
    /\ UNCHANGED <<posts, search_index, search_method, dir, remaining, build,
                   outcome, constructed, snap>>
    /\ UNCHANGED <<parseVars, renderVars, appVars>>

\* lines 198-200
CloseIndex ==
    /\ pc = "close_index"
    /\ search_index' = NoIndex
    /\ pc' = "listdir"
    /\ obs' = NoObs
    /\ UNCHANGED <<posts, tags, search_method, dir, remaining, build,
                   outcome, constructed, snap>>
    /\ UNCHANGED <<parseVars, renderVars, appVars>>

\* line 203: os.listdir returns the directory's entries, in no promised order
ListDir ==
    /\ pc = "listdir"
    /\ remaining' = {f \in Filenames : dir[f].exists}
    /\ pc' = "files"
    /\ obs' = NoObs
    /\ UNCHANGED <<posts, tags, search_index, search_method, dir, build,
                   outcome, constructed, snap>>
    /\ UNCHANGED <<parseVars, renderVars, appVars>>

\* line 203: os.listdir raises (the directory is missing or unreadable)
ListDirFails ==
    /\ pc = "listdir"
    /\ Abort("listdir_error", posts)
    /\ obs' = NoObs
    /\ UNCHANGED <<tags, search_index, search_method, dir, remaining, build,
                   constructed, snap>>
    /\ UNCHANGED <<parseVars, renderVars, appVars>>

\* lines 204-215 for the next file of the listing
LoadFile(f) ==
    /\ pc = "files"
    /\ f \in remaining
    /\ LET r == LoadOne(posts, f, dir[f])
       IN  IF r.status = "raise"
           THEN /\ Abort("read_error", posts)
                /\ remaining' = {}
           ELSE /\ posts' = r.posts
                /\ remaining' = remaining \ {f}
                /\ UNCHANGED <<pc, outcome>>
    /\ obs' = NoObs
    /\ UNCHANGED <<tags, search_index, search_method, dir, build, constructed, snap>>
    /\ UNCHANGED <<parseVars, renderVars, appVars>>

\* line 222, after the listing is exhausted; lines 225 and 231 when no search
\* index is asked for
BuildTags ==
    /\ pc = "files"
    /\ remaining = {}
    /\ tags' = BuildTagIndex(posts, tags)
    /\ IF build
       THEN /\ pc' = "search_index"
            /\ UNCHANGED <<outcome, constructed>>
       ELSE /\ pc' = "idle"
            /\ outcome' = "ok"
            /\ constructed' = TRUE
    /\ obs' = NoObs
    /\ UNCHANGED <<posts, search_index, search_method, dir, remaining, build, snap>>
    /\ UNCHANGED <<parseVars, renderVars, appVars>>

\* lines 225-231: the database is filled aside and published by the one
\* assignment of line 259
BuildIndex ==
    /\ pc = "search_index"
    /\ search_index' = Index(BuildSearchIndex(posts))
    /\ pc' = "idle"
    /\ outcome' = "ok"
    /\ constructed' = TRUE
    /\ obs' = NoObs
    /\ UNCHANGED <<posts, tags, search_method, dir, remaining, build, snap>>
    /\ UNCHANGED <<parseVars, renderVars, appVars>>

\* lines 242-258: sqlite3 raises while the database is filled
BuildIndexFails ==
    /\ pc = "search_index"
    /\ Abort("index_error", posts)
    /\ obs' = NoObs
    /\ UNCHANGED <<tags, search_index, search_method, dir, remaining, build,
                   constructed, snap>>
    /\ UNCHANGED <<parseVars, renderVars, appVars>>


(***************************************************************************)
(* The routes of src/main.py                                               *)
(***************************************************************************)
\* Optional[str]: None is <<>>, the string q is <<q>>
NoStr == <<>>
SomeStr(q) == <<q>>

\* str.strip(): leading and trailing whitespace removed, inner whitespace kept
Whitespace == {" ", NL}
RECURSIVE LStrip(_)
LStrip(s) == IF s # <<>> /\ Head(s) \in Whitespace THEN LStrip(Tail(s)) ELSE s
RECURSIVE RStrip(_)
RStrip(s) ==
    IF s # <<>> /\ s[Len(s)] \in Whitespace THEN RStrip(SubSeq(s, 1, Len(s) - 1)) ELSE s
Strip(s) == RStrip(LStrip(s))

\* the longest query view_search passes on (src/main.py:114)
QueryMax == 50

\* TemplateRenderer.render (src/utils.py:108-112) as a route calls it: the
\* status, the template, the posts of the context and the total_posts that
\* context.update(self.static_params) puts into every context (line 104)
Render(template_name, status_code, ps, sp) ==
    [status |-> status_code, template |-> template_name, posts |-> ps,
     total_posts |-> sp, searched |-> FALSE, keyword |-> <<>>]

\* the order parameter of view_search
SearchOrders == {"relevance", "modified", "modified_desc", "date", "date_desc"}

\* view_search (src/main.py:96-131): the response, whether posts_manager.search
\* was called and with which keyword; seg is what jieba_fast.lcut returns for
\* the keyword.  An exception of search leaves the route: the framework answers
\* with status 500.
ViewSearchLengthBeforeStrip(s, method, sp, query, order, seg) ==
    IF query = NoStr \/ order = None
    THEN Render("search.html", 200, <<>>, sp)
    ELSE IF order = "relevance" /\ method = "fullmatch"
    THEN Render("error.html", 400, <<>>, sp)
    ELSE IF Len(query[1]) < 1 \/ Len(query[1]) > QueryMax
    THEN Render("error.html", 400, <<>>, sp)
    ELSE LET q == Strip(query[1])
             found == Search(s, method, q, seg)
         IN  IF found.err # None
             THEN [Render("", 500, <<>>, sp) EXCEPT !.searched = TRUE, !.keyword = q]
             ELSE [Render("search.html", 200,
                          IF order # "relevance" THEN OrderBy(found.val, order)
                          ELSE found.val, sp)
                     EXCEPT !.searched = TRUE, !.keyword = q]

ViewSearch(s, method, sp, query, order, seg) ==
    IF query = NoStr \/ order = None
    THEN Render("search.html", 200, <<>>, sp)
    ELSE IF order = "relevance" /\ method = "fullmatch"
    THEN Render("error.html", 400, <<>>, sp)
    ELSE LET q == Strip(query[1])
         IN  IF Len(q) < 1 \/ Len(q) > QueryMax
             THEN Render("error.html", 400, <<>>, sp)
             ELSE LET found == Search(s, method, q, seg)
                  IN  IF found.err # None
                      THEN [Render("", 500, <<>>, sp)
                              EXCEPT !.searched = TRUE, !.keyword = q]
                      ELSE [Render("search.html", 200,
                                   IF order # "relevance"
                                   THEN OrderBy(found.val, order)
                                   ELSE found.val, sp)
                              EXCEPT !.searched = TRUE, !.keyword = q]

\* a request and the response it got; n_posts and load are the size of the
\* posts map and how the last load_posts call stood ("running", "ok" or the
\* error that ended it) when the response was made
NoRequest == [route |-> "none", query |-> NoStr, order |-> None]
NoResp ==
    [req |-> NoRequest, r |-> Render("", 0, <<>>, NoInt), n_posts |-> 0,
     load |-> "none"]

(***************************************************************************)
(* AmiaBlogStaticGenerator (src/staticify.py)                              *)
(***************************************************************************)
\* a file or subtree of the destination directory, by what it is and, for a
\* post or tag page, whose it is
DestFile(kind, name) == [kind |-> kind, name |-> name]

\* the test of line 55 on what input() returned: the run goes on to remove the
\* directory
ConsentsUnlessNo(remove) == Lower(remove) # <<"n">>

Consents(remove) == Lower(remove) = <<"y">>

\* init_static_assets, render_top_layers, render_posts, render_tags and
\* write_build_info (lines 62-149): what each creates under the destination
StaticAssets == {DestFile("static", <<>>), DestFile("favicon.ico", <<>>)}
TopLayers ==
    {DestFile("feed.xml", <<>>), DestFile("index.html", <<>>),
     DestFile("posts.html", <<>>), DestFile("tags.html", <<>>),
     DestFile("404.html", <<>>)}
PostPages(ps) == {DestFile("post", ps[i].slug) : i \in 1..Len(ps)}
TagPages(tg) == {DestFile("tag", tg[i].name) : i \in 1..Len(tg)}
BuildInfo == {DestFile("amiablog_build_info.txt", <<>>)}

(***************************************************************************)
(* Idle values of the state a specification does not exercise              *)
(***************************************************************************)
NotParsed == [called |-> FALSE, res |-> [ok |-> FALSE, metadata |-> <<>>, body |-> <<>>]]
IdleParse == content = <<>> /\ parsed = NotParsed
NoOutput == [called |-> FALSE, name |-> "", context |-> [k \in ContextKeys |-> Undefined],
             cached |-> RenderError, fresh |-> RenderError]
IdleRender ==
    /\ source = [n \in TemplateNames |-> Missing]
    /\ cachedT = [n \in TemplateNames |-> Missing]
    /\ freshT = [n \in TemplateNames |-> Missing]
    /\ stale = {}
    /\ out = NoOutput
NotOrdered == [called |-> FALSE, val |-> <<>>]
NoListing == [arg |-> <<>>, out |-> [k \in OrderKeys |-> NotOrdered]]
NoFeed == [called |-> FALSE, limit |-> NoInt, is_static |-> FALSE, parts |-> <<>>]
NoDest == [exists |-> FALSE, files |-> {}]
NoGen ==
    [pc |-> "off", remove_existing |-> FALSE, asked |-> FALSE, answer |-> <<>>,
     removed |-> FALSE, prior |-> NoDest]
IdleApp ==
    /\ total_posts = NoInt
    /\ resp = NoResp
    /\ feed = NoFeed
    /\ listing = NoListing
    /\ gen = NoGen
    /\ dest = NoDest
IdleStore ==
    /\ posts = <<>>
    /\ tags = <<>>
    /\ search_index = NoIndex
    /\ search_method = "fullmatch"
    /\ pc = "idle"
    /\ dir = EmptyDir
    /\ remaining = {}
    /\ build = TRUE
    /\ outcome = "none"
    /\ constructed = FALSE
    /\ snap = EmptyStore
    /\ obs = NoObs

\* PostsManager.__init__ up to its call of load_posts (lines 180-191)
Init ==
    /\ posts = <<>>
    /\ tags = <<>>
    /\ search_index = NoIndex
    /\ search_method \in {"fullmatch", "jieba"}
    /\ pc = "idle"
    /\ dir = EmptyDir
    /\ remaining = {}
    /\ build = TRUE
    /\ outcome = "none"
    /\ constructed = FALSE
    /\ snap = EmptyStore
    /\ obs = NoObs
    /\ IdleParse
    /\ IdleRender
    /\ IdleApp

Next ==
    \/ \E d \in Dirs, b \in BOOLEAN : LoadPosts(d, b)
    \/ ClearTags
    \/ CloseIndex
    \/ ListDir
    \/ ListDirFails
    \/ \E f \in Filenames : LoadFile(f)
    \/ BuildTags
    \/ BuildIndex
    \/ BuildIndexFails
    \/ \E q \in MainQueries : Query(q)

Spec == Init /\ [][Next]_vars

(***************************************************************************)
(* Claims on the store                                                     *)
(***************************************************************************)
Perms(S) == {o \in [1..Cardinality(S) -> S] : \A x \in S : \E i \in DOMAIN o : o[i] = x}

Listed(d) == {f \in Filenames : d[f].exists}
MdFiles(d) == {f \in Listed(d) : EndsWith(f, DotMd)}
Parses(d, f) == d[f].readable /\ ParsePost(d[f].text).ok
PublishedDocs(d) ==
    {f \in MdFiles(d) : Parses(d, f) /\ ParsePost(d[f].text).metadata.published}
UnpublishedDocs(d) ==
    {f \in Listed(d) : Parses(d, f) /\ ~ParsePost(d[f].text).metadata.published}

\* the posts map a complete load of d leaves when os.listdir answers `order`
RECURSIVE LoadAll(_, _, _)
LoadAll(ps, order, d) ==
    IF order = <<>> THEN ps
    ELSE LoadAll(LoadOne(ps, Head(order), d[Head(order)]).posts, Tail(order), d)

\* the stores a complete load_posts(b) of d can leave: none when a file of d
\* cannot be read
NewStores(d, b) ==
    IF \E f \in MdFiles(d) : ~d[f].readable THEN {}
    ELSE {[posts |-> LoadAll(<<>>, o, d),
           tags |-> BuildTagIndex(LoadAll(<<>>, o, d), <<>>),
           search_index |-> IF b THEN Index(BuildSearchIndex(LoadAll(<<>>, o, d)))
                            ELSE NoIndex] : o \in Perms(Listed(d))}

ErrorOutcomes == {"listdir_error", "read_error", "index_error"}
Completed == pc = "idle" /\ outcome = "ok"

\* C1 (as claimed): while load_posts runs as a reload, what a reader's query
\* returns is what it returns on the complete pre-reload store or on a complete
\* post-reload store, never anything else.
C1_ReaderSeesWholeSnapshot ==
    (constructed /\ pc # "idle" /\ obs.q.op # "none") =>
        obs.r \in {Eval(obs.q, snap, search_method)}
                  \cup {Eval(obs.q, n, search_method) : n \in NewStores(dir, build)}

\* C2 (as claimed): a reload that aborts with an error leaves the posts map, the
\* tag index and the search index as they were when it was called.
C2_ReloadAllOrNothing ==
    (constructed /\ pc = "idle" /\ outcome \in ErrorOutcomes) => Store = snap

\* the queries that return posts, and the occurrences of a tag name in the
\* tag lists of the published documents of d
PostQueries == {q \in MainQueries : q.op # "list_tags"}
TagOccurrences(d, name) ==
    LET occ(f) == Cardinality({k \in 1..Len(ParsePost(d[f].text).metadata.tags) :
                                  ParsePost(d[f].text).metadata.tags[k] = name})
        RECURSIVE Sum(_)
        Sum(S) == IF S = {} THEN 0
                  ELSE LET f == CHOOSE x \in S : TRUE IN occ(f) + Sum(S \ {f})
    IN  Sum(PublishedDocs(d))
\* the slugs of the documents of d that parse and have published == false
UnpublishedSlugs(d) == {SlugOf(f) : f \in UnpublishedDocs(d)}

\* C3: a document with published == false is in no query result: its slug is no
\* key of posts, no post returned by get, recent_posts, get_posts_by_tag, search
\* or the feed is unpublished or has its slug, and after a load the count of a
\* tag never exceeds its occurrences in the published documents.
C3_UnpublishedInvisible ==
    /\ \A i \in 1..Len(posts) : posts[i].metadata.published
    /\ Slugs(posts) \cap UnpublishedSlugs(dir) = {}
    /\ \A q \in PostQueries :
          LET r == Eval(q, Store, search_method)
          IN  \A i \in 1..Len(r.val) :
                 /\ r.val[i].metadata.published
                 /\ r.val[i].slug \notin UnpublishedSlugs(dir)
    /\ pc = "idle" =>
          \A i \in 1..Len(tags) : tags[i].count <= TagOccurrences(dir, tags[i].name)
\* an unpublished a.md beside a published b.md, loaded and searched
C3_Witness ==
    /\ Completed
    /\ dir[FileA] = DocU
    /\ dir[FileB] = DocB
    /\ Len(posts) = 1
    /\ obs.q.op = "search"
    /\ obs.r.err = None
    /\ Len(obs.r.val) = 1

\* C4 (as claimed): after a completed load the tag index has an entry for t
\* exactly when a stored post references t, and the entry's count is the number
\* of stored posts whose tag list contains t.
C4_TagCountIsPostCount ==
    Completed =>
        /\ {tags[i].name : i \in 1..Len(tags)}
             = UNION {Range(posts[j].metadata.tags) : j \in 1..Len(posts)}
        /\ \A i \in 1..Len(tags) :
              tags[i].count =
                 Cardinality({j \in 1..Len(posts) :
                                tags[i].name \in Range(posts[j].metadata.tags)})

\* C6: a document whose parsing or validation fails never ends load_posts: a
\* call ends with an error only when listing, reading or indexing failed, and a
\* call that returns leaves exactly the parseable, published .md documents.
C6_BadDocSkipped ==
    (pc = "idle" /\ outcome # "none") =>
        /\ outcome \in {"ok"} \cup ErrorOutcomes
        /\ outcome = "read_error" => \E f \in MdFiles(dir) : ~dir[f].readable
        /\ outcome = "ok" => Slugs(posts) = {SlugOf(f) : f \in PublishedDocs(dir)}
\* a.md fails validation, b.md is stored all the same
C6_Witness ==
    /\ Completed
    /\ dir[FileA] = DocBad
    /\ dir[FileB] = DocB
    /\ Slugs(posts) = {<<"b">>}

\* the store holds no built search index
NoIndexBuilt == ~search_index.open \/ (Completed /\ ~build)
\* C9: a search on a store that holds no built index (no index is open, as is
\* the case after a load with build_search_index=False) fails with an error and
\* changes neither the posts map nor the tag index.
C9_SearchWithoutIndexFails ==
    [][(obs'.q.op = "search" /\ obs' # obs /\ NoIndexBuilt) =>
          (obs'.r.err = "ValueError" /\ posts' = posts /\ tags' = tags)]_vars
\* a reload with build_search_index=False dropped an earlier index
C9_Witness ==
    /\ Completed
    /\ ~build
    /\ snap.search_index.open
    /\ Len(posts) > 0
    /\ obs.q.op = "search"
    /\ obs.r.err = "ValueError"

\* C15: after every completed load_posts() that builds the index, also a
\* reload, the search index holds one row per post of the posts map, with that
\* post's slug and in the map's order, and no other row; so a search made then
\* finds every slug it reads from the index in the posts map, with either
\* strategy.
C15_IndexRowsAreCurrentPosts ==
    (Completed /\ build) =>
        /\ search_index.open
        /\ Len(search_index.rows) = Len(posts)
        /\ \A i \in 1..Len(posts) : search_index.rows[i].slug = posts[i].slug
        /\ obs.q.op = "search" =>
              /\ obs.r.err = None
              /\ \A i \in 1..Len(obs.r.val) : obs.r.val[i].slug \in Slugs(posts)
\* a reload that dropped a post the earlier index had a row for, then a search
\* that finds a post
C15_Witness ==
    /\ Completed
    /\ build
    /\ snap.search_index.open
    /\ \E i \in 1..Len(snap.search_index.rows) :
          snap.search_index.rows[i].slug \notin Slugs(posts)
    /\ obs.q.op = "search"
    /\ obs.r.err = None
    /\ Len(obs.r.val) = 1

(***************************************************************************)
(* parse_post on its own: every text of at most MaxTextLen symbols         *)
(***************************************************************************)
MaxTextLen == 5
ParseAlphabet == {NL, DASHES, "Ma", "b"}

InitParse ==
    /\ content \in SeqUpTo(ParseAlphabet, MaxTextLen)
    /\ parsed = NotParsed
    /\ IdleStore
    /\ IdleRender
    /\ IdleApp

ParseCall ==
    /\ ~parsed.called
    /\ parsed' = [called |-> TRUE, res |-> ParsePost(content)]
    /\ UNCHANGED <<content, storeVars, renderVars, appVars>>

NextParse == ParseCall

SpecParse == InitParse /\ [][NextParse]_vars

\* the lines before and after the first line equal to "---" (all of them
\* before, none after, when there is no such line)
FirstSeparator(lines) ==
    IF \E i \in 1..Len(lines) : lines[i] = <<DASHES>>
    THEN CHOOSE i \in 1..Len(lines) :
            /\ lines[i] = <<DASHES>>
            /\ \A j \in 1..(i - 1) : lines[j] # <<DASHES>>
    ELSE Len(lines) + 1
LinesBefore(text) ==
    SubSeq(Split(text, NL), 1, FirstSeparator(Split(text, NL)) - 1)
LinesAfter(text) ==
    SubSeq(Split(text, NL), FirstSeparator(Split(text, NL)) + 1, Len(Split(text, NL)))

\* C5 (as claimed): parse_post decodes the lines before the first "---" line as
\* the metadata and returns as the body all the lines after that line, joined by
\* newlines, whatever the body holds.
C5_SplitAtFirstSeparator ==
    (parsed.called /\ parsed.res.ok) =>
        /\ parsed.res.metadata =
              ModelValidate(SafeLoad(Join(LinesBefore(content), NL)).map).meta
        /\ parsed.res.body = Join(LinesAfter(content), NL)

(***************************************************************************)
(* search on its own: every store of at most MaxSearchPosts posts, every   *)
(* keyword of at most MaxQueryLen characters, both strategies              *)
(***************************************************************************)
MaxSearchPosts == 2
MaxQueryLen == 2
QueryAlphabet == {"a", "A", "%", "_"}

SearchMeta(title, tag, keywords) ==
    [title |-> title, date |-> 1, last_modified |-> 1, tags |-> <<tag>>,
     published |-> TRUE, keywords |-> keywords]
SearchKinds ==
    {[metadata |-> SearchMeta(<<"a">>, <<"a">>, <<>>), content |-> <<"b">>],
     [metadata |-> SearchMeta(<<"a">>, <<"b">>, <<>>), content |-> <<"b">>],
     [metadata |-> SearchMeta(<<"b">>, <<"b">>, <<>>), content |-> <<"a">>],
     [metadata |-> SearchMeta(<<"b">>, <<"b">>, << <<"a">> >>), content |-> <<"b">>],
     [metadata |-> SearchMeta(<<"b", "%">>, <<"b">>, <<>>), content |-> <<"b">>]}
\* the slug of the i-th post of a store; the second one is in upper case
SearchSlug(i) == IF i = 2 THEN <<"A">> ELSE [j \in 1..i |-> "s"]
SearchStores ==
    {[i \in 1..Len(ks) |->
        [metadata |-> ks[i].metadata, content |-> ks[i].content, slug |-> SearchSlug(i)]] :
        ks \in SeqUpTo(SearchKinds, MaxSearchPosts)}

InitSearch ==
    /\ posts \in SearchStores
    /\ tags = BuildTagIndex(posts, <<>>)
    /\ search_index = Index(BuildSearchIndex(posts))
    /\ search_method \in {"fullmatch", "jieba"}
    /\ pc = "idle"
    /\ dir = EmptyDir
    /\ remaining = {}
    /\ build = TRUE
    /\ outcome = "ok"
    /\ constructed = TRUE
    /\ snap = EmptyStore
    /\ obs = NoObs
    /\ IdleParse
    /\ IdleRender
    /\ IdleApp

\* view_search's call of search (src/main.py:119) by a reader that has not
\* searched yet
SearchCall(keyword, seg) ==
    /\ obs.q.op = "none"
    /\ Query(Q("search", keyword, NoInt, seg))

NextSearch ==
    \E keyword \in SeqUpTo(QueryAlphabet, MaxQueryLen) :
        \E seg \in (IF search_method = "jieba"
                    THEN Segmentations(Lower(keyword)) ELSE {<<>>}) :
            SearchCall(keyword, seg)

SpecSearch == InitSearch /\ [][NextSearch]_vars

Searched(method) == obs.q.op = "search" /\ search_method = method

\* the keyword is a case-insensitive literal substring of a fullmatch field
LiteralMatch(post, keyword) ==
    \/ IsSubstring(Lower(keyword), Lower(post.slug))
    \/ IsSubstring(Lower(keyword), Lower(post.metadata.title))
    \/ IsSubstring(Lower(keyword), Lower(Join(post.metadata.tags, ",")))
    \/ IsSubstring(Lower(keyword), Lower(Join(post.metadata.keywords, ",")))
\* C7 (as claimed): a fullmatch search returns exactly the stored posts that have
\* the query as a case-insensitive literal substring of the slug, the title,
\* the comma-joined tags or the comma-joined keywords, in insertion order, and
\* never fails.
C7_FullmatchIsLiteralSubstring ==
    Searched("fullmatch") =>
        /\ obs.r.err = None
        /\ obs.r.val = Filter(posts, {posts[i].slug : i \in
                          {j \in 1..Len(posts) : LiteralMatch(posts[j], obs.q.arg)}})

\* the hit count search gave a slug
HitsOf(hits, slug) ==
    IF \E i \in 1..Len(hits) : hits[i].slug = slug
    THEN hits[CHOOSE i \in 1..Len(hits) : hits[i].slug = slug].n
    ELSE 0
\* the four fields the tokenized search looks into, as the index holds them
PostFields(post) ==
    [title |-> Lower(post.metadata.title),
     tags |-> Lower(Join(post.metadata.tags, ",")),
     content |-> Lower(post.content),
     keywords |-> Lower(Join(post.metadata.keywords, ","))]
JiebaFields == {"title", "tags", "content", "keywords"}

\* no token of the query holds a LIKE wildcard
PlainQuery == \A t \in 1..Len(obs.q.seg) : Range(obs.q.seg[t]) \cap {"%", "_"} = {}
TokenMatches(post, token) ==
    \E c \in JiebaFields : Like(PostFields(post)[c], Wrap(token))
TokenHits(post, seg) ==
    Cardinality({t \in 1..Len(seg) : TokenMatches(post, seg[t])})
FirstToken(post, seg) ==
    CHOOSE t \in 1..Len(seg) :
        /\ TokenMatches(post, seg[t])
        /\ \A u \in 1..(t - 1) : ~TokenMatches(post, seg[u])
PlaceOf(slug) == CHOOSE i \in 1..Len(posts) : posts[i].slug = slug
\* p was first seen before q: by an earlier token, or by the same token and
\* earlier in the store
SeenBefore(p, q, seg) ==
    \/ FirstToken(p, seg) < FirstToken(q, seg)
    \/ (FirstToken(p, seg) = FirstToken(q, seg) /\ PlaceOf(p.slug) < PlaceOf(q.slug))

MaxVersion == 2
Versions == 1..MaxVersion
StaticParams == [k \in ContextKeys |-> IF k = "total_posts" THEN "n1" ELSE Undefined]
Contexts ==
    {[k \in ContextKeys |-> IF k = "posts" THEN p ELSE t] :
        p \in {Undefined, "p1"}, t \in {Undefined, "n2"}}

InitRender ==
    /\ source \in [TemplateNames -> Versions \cup {Missing}]
    /\ cachedT = [n \in TemplateNames |-> Missing]
    /\ freshT = [n \in TemplateNames |-> Missing]
    /\ stale = {}
    /\ out = NoOutput
    /\ IdleStore
    /\ IdleParse
    /\ IdleApp

\* the file of template `name` is written anew with source v
EditTemplate(name, v) ==
    /\ v # source[name]
    /\ source' = [source EXCEPT ![name] = v]
    /\ stale' = IF cachedT[name] # Missing THEN stale \cup {name} ELSE stale
    /\ UNCHANGED <<cachedT, freshT, out, storeVars, parseVars, appVars>>

\* the same render_to_plain_text call on both renderers
RenderCall(name, context) ==
    LET c == RenderToPlainText(cachedT, FALSE, StaticParams, source, name, context)
        f == RenderToPlainText(freshT, TRUE, StaticParams, source, name, context)
    IN  /\ cachedT' = c.templates
        /\ freshT' = f.templates
        /\ out' = [called |-> TRUE, name |-> name, context |-> context,
                   cached |-> c.text, fresh |-> f.text]
        /\ UNCHANGED <<source, stale, storeVars, parseVars, appVars>>

NextRender ==
    \/ \E name \in TemplateNames, v \in Versions : EditTemplate(name, v)
    \/ \E name \in TemplateNames, context \in Contexts : RenderCall(name, context)

SpecRender == InitRender /\ [][NextRender]_vars

\* C10 (as claimed): on every call the caching renderer returns the text the
\* non-caching renderer returns, also when template sources change between calls.
C10_CacheFlagUnobservable ==
    out.called => out.cached = out.fresh

\* C10 (amended): the two renderers return the same text on every call for a
\* template whose source has not changed since the caching renderer first
\* loaded it.
C10_SameTextWhileSourceUnchanged ==
    (out.called /\ out.name \notin stale) => out.cached = out.fresh
\* a second call for a cached template, another template edited meanwhile
C10_Witness ==
    /\ out.called
    /\ out.cached.ok
    /\ out.name \notin stale
    /\ stale # {}
    /\ out.cached = out.fresh
    /\ out.cached.context["total_posts"] = "n1"
    /\ out.cached.minified

(***************************************************************************)
(* The search route on its own: every store of at most MaxSearchPosts      *)
(* posts, both strategies, requests with and without query and order       *)
(***************************************************************************)
Run(c, n) == [j \in 1..n |-> c]
\* the query strings of the requests: empty, short, and around QueryMax
\* characters long, bare and inside whitespace
Padding == {<<>>, <<" ">>, <<NL, " ">>}
RouteQueries ==
    {pre \o Run("a", n) \o post :
        pre \in Padding, post \in Padding,
        n \in {0, 1, QueryMax - 1, QueryMax, QueryMax + 1}}
    \cup {<<"a", " ", "a">>, <<"%">>}
\* what jieba_fast.lcut may return: any cut of a short keyword; of a long one
\* the keyword whole or cut in two after its first character
RouteSegs(q) ==
    IF Len(q) <= MaxQueryLen THEN Segmentations(q)
    ELSE {<<q>>, <<SubSeq(q, 1, 1), SubSeq(q, 2, Len(q))>>}

\* the stores the route is tried on: posts found by the query "a" through
\* the title or through the body only, and posts not found
MaxRoutePosts == 2
RouteKinds ==
    {[metadata |-> SearchMeta(<<"a">>, <<"b">>, <<>>), content |-> <<"b">>],
     [metadata |-> SearchMeta(<<"b">>, <<"b">>, <<>>), content |-> <<"a">>]}
RouteStores ==
    {[i \in 1..Len(ks) |->
        [metadata |-> ks[i].metadata, content |-> ks[i].content, slug |-> SearchSlug(i)]] :
        ks \in SeqUpTo(RouteKinds, MaxRoutePosts)}

\* main.py's module body, after posts_manager and renderer are made (lines
\* 23-34)
InitRoute ==
    /\ posts \in RouteStores
    /\ tags = BuildTagIndex(posts, <<>>)
    /\ search_index = Index(BuildSearchIndex(posts))
    /\ search_method \in {"fullmatch", "jieba"}
    /\ pc = "idle"
    /\ dir = EmptyDir
    /\ remaining = {}
    /\ build = TRUE
    /\ outcome = "ok"
    /\ constructed = TRUE
    /\ snap = EmptyStore
    /\ obs = NoObs
    /\ total_posts = SomeInt(Len(posts))
    /\ resp = NoResp
    /\ feed = NoFeed
    /\ listing = NoListing
    /\ gen = NoGen
    /\ dest = NoDest
    /\ IdleParse
    /\ IdleRender

\* GET /search, the first request after start-up; obs is the call of
\* posts_manager.search the request made, if it made one
ViewSearchCall(query, order, seg) ==
    LET r == ViewSearch(Store, search_method, total_posts, query, order, seg)
    IN  /\ resp.req.route = "none"
        /\ resp' = [req |-> [route |-> "search", query |-> query, order |-> order],
                    r |-> r, n_posts |-> Len(posts), load |-> outcome]
        /\ obs' = IF r.searched
                  THEN [q |-> Q("search", r.keyword, NoInt, seg),
                        r |-> Search(Store, search_method, r.keyword, seg)]
                  ELSE NoObs
        /\ UNCHANGED <<posts, tags, search_index, search_method, pc, dir, remaining,
                       build, outcome, constructed, snap>>
        /\ UNCHANGED <<total_posts, feed, listing, gen, dest>>
        /\ UNCHANGED <<parseVars, renderVars>>

NextRoute ==
    \E query \in {NoStr} \cup {SomeStr(q) : q \in RouteQueries},
       order \in {None} \cup SearchOrders :
        \E seg \in (IF query # NoStr /\ search_method = "jieba"
                    THEN RouteSegs(Lower(Strip(query[1]))) ELSE {<<>>}) :
            ViewSearchCall(query, order, seg)

SpecRoute == InitRoute /\ [][NextRoute]_vars

\* the number of characters from the first to the last non-whitespace
\* character of a string, 0 when it has none
TrimmedLen(str) ==
    LET solid == {i \in 1..Len(str) : str[i] \notin Whitespace}
    IN  IF solid = {} THEN 0
        ELSE (CHOOSE i \in solid : \A j \in solid : j <= i)
             - (CHOOSE i \in solid : \A j \in solid : i <= j) + 1
\* the request is one the route may pass on to search
Searchable(req, method) ==
    /\ TrimmedLen(req.query[1]) >= 1
    /\ TrimmedLen(req.query[1]) <= 50
    /\ ~(req.order = "relevance" /\ method = "fullmatch")

\* C12: given both a query and an order, view_search calls posts_manager.search
\* only if the whitespace-trimmed query is 1 to 50 characters long and the
\* order is not "relevance" under the fullmatch strategy; in every other such
\* case the response is the error page with status 400 and search is not
\* called.
C12_SearchGuarded ==
    (resp.req.route = "search" /\ resp.req.query # NoStr /\ resp.req.order # None) =>
        /\ resp.r.searched => Searchable(resp.req, search_method)
        /\ obs.q.op = "search" => Searchable(resp.req, search_method)
        /\ ~Searchable(resp.req, search_method) =>
              /\ resp.r.status = 400
              /\ resp.r.template = "error.html"
              /\ ~resp.r.searched
              /\ obs = NoObs
\* a query of more than 50 characters that trims to 50 is searched, and one
\* character more is refused (the store is the same, so this is the same state
\* but for the request)
C12_Witness ==
    /\ resp.req.route = "search"
    /\ resp.req.order = "date"
    /\ resp.req.query # NoStr
    /\ Len(resp.req.query[1]) > 50
    /\ TrimmedLen(resp.req.query[1]) = 50
    /\ resp.r.searched
    /\ obs.q.op = "search"
    /\ Len(obs.q.arg) = 50
    /\ resp.r.status = 200

(***************************************************************************)
(* order_by on its own: every list of at most MaxListLen posts with dates  *)
(* in 1..MaxListLen, equal dates included                                  *)
(***************************************************************************)
MaxListLen == 3
OrderDates == 1..MaxListLen
OrderModified == {1, 2}
OrderMeta(date, modified) ==
    [title |-> <<"a">>, date |-> date, last_modified |-> modified,
     tags |-> << <<"x">> >>, published |-> TRUE, keywords |-> <<>>]
OrderLists ==
    {[i \in 1..Len(ks) |->
        [metadata |-> OrderMeta(ks[i][1], ks[i][2]), content |-> <<"b">>,
         slug |-> SearchSlug(i)]] :
        ks \in SeqUpTo(OrderDates \X OrderModified, MaxListLen)}

InitOrder ==
    /\ listing \in {[arg |-> l, out |-> [k \in OrderKeys |-> NotOrdered]] :
                       l \in OrderLists}
    /\ total_posts = NoInt
    /\ resp = NoResp
    /\ feed = NoFeed
    /\ gen = NoGen
    /\ dest = NoDest
    /\ IdleStore
    /\ IdleParse
    /\ IdleRender

\* posts_manager.order_by(list, key) is called on the list
OrderByCall(key) ==
    /\ listing' = [listing EXCEPT !.out[key] =
                      [called |-> TRUE, val |-> OrderBy(listing.arg, key)]]
    /\ UNCHANGED <<total_posts, resp, feed, gen, dest>>
    /\ UNCHANGED <<storeVars, parseVars, renderVars>>

NextOrder == \E key \in OrderKeys : OrderByCall(key)

SpecOrder == InitOrder /\ [][NextOrder]_vars

Reverse(seq) == [i \in 1..Len(seq) |-> seq[Len(seq) + 1 - i]]
\* seq holds the elements of list, each as often as list does
IsPermutationOf(seq, list) ==
    /\ Len(seq) = Len(list)
    /\ \E p \in Perms(1..Len(list)) : \A i \in 1..Len(list) : seq[i] = list[p[i]]
DistinctDates(list) ==
    \A i, j \in 1..Len(list) : i # j => list[i].metadata.date # list[j].metadata.date

\* C14: for a non-empty list of posts with pairwise distinct publish dates,
\* order_by(list, "date_desc") is the exact reverse of order_by(list, "date"),
\* and both are permutations of the list.
C14_DateDescIsReverseOfDate ==
    (/\ listing.out["date"].called
     /\ listing.out["date_desc"].called
     /\ listing.arg # <<>>
     /\ DistinctDates(listing.arg)) =>
        /\ listing.out["date_desc"].val = Reverse(listing.out["date"].val)
        /\ IsPermutationOf(listing.out["date"].val, listing.arg)
        /\ IsPermutationOf(listing.out["date_desc"].val, listing.arg)
\* three posts with distinct dates, given neither in ascending nor in
\* descending order, sorted both ways
C14_Witness ==
    /\ listing.out["date"].called
    /\ listing.out["date_desc"].called
    /\ Len(listing.arg) = 3
    /\ DistinctDates(listing.arg)
    /\ listing.arg # listing.out["date"].val
    /\ listing.arg # listing.out["date_desc"].val
    /\ listing.out["date"].val[1].metadata.date = 1
    /\ listing.out["date_desc"].val[1].metadata.date = 3

(***************************************************************************)
(* generate_rss on its own: every store of at most MaxListLen posts, equal *)
(* last_modified dates included, with and without a limit                  *)
(***************************************************************************)
\* the limits a caller gives: None, or a number of items from 0 to more than
\* the store holds
FeedLimits == {NoInt} \cup {SomeInt(n) : n \in 0..(MaxListLen + 1)}

InitFeed ==
    /\ posts \in OrderLists
    /\ tags = BuildTagIndex(posts, <<>>)
    /\ search_index = Index(BuildSearchIndex(posts))
    /\ search_method = "fullmatch"
    /\ pc = "idle"
    /\ dir = EmptyDir
    /\ remaining = {}
    /\ build = TRUE
    /\ outcome = "ok"
    /\ constructed = TRUE
    /\ snap = EmptyStore
    /\ obs = NoObs
    /\ total_posts = SomeInt(Len(posts))
    /\ resp = NoResp
    /\ feed = NoFeed
    /\ listing = NoListing
    /\ gen = NoGen
    /\ dest = NoDest
    /\ IdleParse
    /\ IdleRender

\* rss_provider.generate_rss(limit, is_static) (src/main.py:51,
\* src/staticify.py:73)
FeedCall(limit, is_static) ==
    /\ feed' = [called |-> TRUE, limit |-> limit, is_static |-> is_static,
                parts |-> GenerateRss(Store, limit, is_static)]
    /\ UNCHANGED <<total_posts, resp, listing, gen, dest>>
    /\ UNCHANGED <<storeVars, parseVars, renderVars>>

NextFeed == \E limit \in FeedLimits, is_static \in BOOLEAN : FeedCall(limit, is_static)

SpecFeed == InitFeed /\ [][NextFeed]_vars

IsItem(part) == part.kind = "item"
FeedItems == SelectSeq(feed.parts, IsItem)
ModifiedOf(slug) ==
    posts[CHOOSE i \in 1..Len(posts) : posts[i].slug = slug].metadata.last_modified
Min(a, b) == IF a < b THEN a ELSE b

\* C13: generate_rss(limit) emits one item per stored post, each post once (the
\* first min(N, limit) of them when a limit is given), in descending
\* last_modified order; for a store with no post it emits the channel's opening
\* and closing parts with no item between them.
C13_OneItemPerPost ==
    feed.called =>
        /\ Len(feed.parts) = Len(FeedItems) + 2
        /\ feed.parts[1].kind = "header"
        /\ feed.parts[Len(feed.parts)].kind = "footer"
        /\ Len(FeedItems) = IF feed.limit = NoInt THEN Len(posts)
                            ELSE Min(Len(posts), feed.limit[1])
        /\ \A i \in 1..Len(FeedItems) : FeedItems[i].slug \in Slugs(posts)
        /\ \A i, j \in 1..Len(FeedItems) :
              i < j => /\ FeedItems[i].slug # FeedItems[j].slug
                       /\ ModifiedOf(FeedItems[i].slug) >= ModifiedOf(FeedItems[j].slug)
        /\ \A i \in 1..Len(FeedItems) :
              \A k \in 1..Len(posts) :
                 ModifiedOf(posts[k].slug) > ModifiedOf(FeedItems[i].slug) =>
                    \E j \in 1..Len(FeedItems) : FeedItems[j].slug = posts[k].slug
        /\ posts = <<>> => feed.parts = <<RssHeader, RssFooter>>
\* three posts stored oldest first, a limit of two: the two newest, newest first
C13_Witness ==
    /\ feed.called
    /\ Len(posts) = 3
    /\ feed.limit = SomeInt(2)
    /\ Len(FeedItems) = 2
    /\ ModifiedOf(posts[1].slug) < ModifiedOf(posts[3].slug)
    /\ FeedItems[1].slug = posts[3].slug

(***************************************************************************)
(* The site of src/main.py: the store is made, then the renderer with its  *)
(* static parameters; pages are served and the store is reloaded           *)
(***************************************************************************)
\* recent_posts' default n (src/utils.py:271)
RecentDefault == 5

\* posts_manager = PostsManager(search_method=config.search_method)
\* (src/main.py:23): the constructor's load_posts, index included
FirstLoad(d) ==
    /\ ~constructed
    /\ LoadPosts(d, TRUE)

\* renderer = TemplateRenderer(..., static_params={..., "total_posts":
\* len(posts_manager.posts), ...}) (src/main.py:25-34): the number is taken
\* once, when the module body runs
MakeRenderer ==
    /\ constructed
    /\ pc = "idle"
    /\ total_posts = NoInt
    /\ total_posts' = SomeInt(Len(posts))
    /\ UNCHANGED <<resp, feed, listing, gen, dest>>
    /\ UNCHANGED <<storeVars, parseVars, renderVars>>

\* a later posts_manager.load_posts(b) of the running site
Reload(d, b) ==
    /\ constructed
    /\ total_posts # NoInt
    /\ LoadPosts(d, b)

\* GET / (src/main.py:43-45)
MainPage ==
    /\ total_posts # NoInt
    /\ resp' = [req |-> [route |-> "index", query |-> NoStr, order |-> None],
                r |-> Render("index.html", 200,
                             RecentPosts(Store, RecentDefault).val, total_posts),
                n_posts |-> Len(posts), load |-> outcome]
    /\ UNCHANGED <<total_posts, feed, listing, gen, dest>>
    /\ UNCHANGED <<storeVars, parseVars, renderVars>>

NextSite ==
    \/ \E d \in Dirs : FirstLoad(d)
    \/ MakeRenderer
    \/ \E d \in Dirs, b \in BOOLEAN : Reload(d, b)
    \/ ClearTags
    \/ CloseIndex
    \/ ListDir
    \/ ListDirFails
    \/ \E f \in Filenames : LoadFile(f)
    \/ BuildTags
    \/ BuildIndex
    \/ BuildIndexFails
    \/ MainPage

SpecSite == Init /\ [][NextSite]_vars

\* C16 (as claimed): the total_posts merged into the context of a render is the
\* number of posts the store holds at the time of that render, also after a
\* later load_posts() has changed the post set.  Stated for the renders made
\* after a load_posts that returned, where the partly loaded stores of C1 and
\* C2 play no part.
C16_TotalPostsIsCurrentCount ==
    (resp.req.route = "index" /\ resp.load = "ok") =>
        resp.r.total_posts = SomeInt(resp.n_posts)

(***************************************************************************)
(* One run of AmiaBlogStaticGenerator(destination, remove_existing)        *)
(* .render(), over a destination that is absent, empty or holds an earlier *)
(* build                                                                   *)
(***************************************************************************)
EarlierBuild == {DestFile("index.html", <<>>), DestFile("old", <<>>)}
PriorDests ==
    {NoDest, [exists |-> TRUE, files |-> {}], [exists |-> TRUE, files |-> EarlierBuild]}
\* what the user may type at the prompt
Answers ==
    {<<"y">>, <<"Y">>, <<"n">>, <<"N">>, <<>>, <<"y", "e", "s">>, <<" ", "y">>}

\* render() is entered (lines 151-157)
InitStatic ==
    /\ posts = <<>>
    /\ tags = <<>>
    /\ search_index = NoIndex
    /\ search_method = "fullmatch"
    /\ pc = "idle"
    /\ dir = EmptyDir
    /\ remaining = {}
    /\ build = FALSE
    /\ outcome = "none"
    /\ constructed = FALSE
    /\ snap = EmptyStore
    /\ obs = NoObs
    /\ dest \in PriorDests
    /\ gen \in {[pc |-> "load_data", remove_existing |-> re, asked |-> FALSE,
                 answer |-> <<>>, removed |-> FALSE, prior |-> dest] :
                   re \in BOOLEAN}
    /\ total_posts = NoInt
    /\ resp = NoResp
    /\ feed = NoFeed
    /\ listing = NoListing
    /\ IdleParse
    /\ IdleRender

GenStep(next) ==
    /\ gen' = [gen EXCEPT !.pc = next]
    /\ UNCHANGED <<resp, feed, listing>>
    /\ UNCHANGED <<storeVars, parseVars, renderVars>>

\* load_data: PostsManager(search_method="fullmatch", build_search_index=False)
\* (lines 32-34) runs load_posts
GenLoadPosts(d) ==
    /\ gen.pc = "load_data"
    /\ ~constructed
    /\ outcome = "none"
    /\ LoadPosts(d, FALSE)

\* load_data returns (lines 36-49, 158-160), static_params made with
\* total_posts = len(self.posts_manager.posts); or the constructor's exception
\* ends the run
LoadData ==
    /\ gen.pc = "load_data"
    /\ pc = "idle"
    /\ outcome # "none"
    /\ IF constructed
       THEN /\ total_posts' = SomeInt(Len(posts))
            /\ GenStep("init_dist_dir")
       ELSE /\ UNCHANGED total_posts
            /\ GenStep("error")
    /\ UNCHANGED dest

\* init_dist_dir, lines 52-57: the destination exists and remove_existing was
\* not passed; the user is asked and the run ends with exit(1) unless the
\* answer consents
AskRemove(remove) ==
    /\ gen.pc = "init_dist_dir"
    /\ dest.exists
    /\ ~gen.remove_existing
    /\ gen' = [gen EXCEPT !.asked = TRUE, !.answer = remove,
                          !.pc = IF Consents(remove) THEN "rmtree" ELSE "exit"]
    /\ UNCHANGED <<total_posts, resp, feed, listing, dest>>
    /\ UNCHANGED <<storeVars, parseVars, renderVars>>

\* line 54: input() raises (standard input is closed)
AskRemoveFails ==
    /\ gen.pc = "init_dist_dir"
    /\ dest.exists
    /\ ~gen.remove_existing
    /\ GenStep("error")
    /\ UNCHANGED <<total_posts, dest>>

\* lines 52-53: nothing to ask
NoQuestion ==
    /\ gen.pc = "init_dist_dir"
    /\ ~dest.exists \/ gen.remove_existing
    /\ GenStep(IF dest.exists THEN "rmtree" ELSE "makedirs")
    /\ UNCHANGED <<total_posts, dest>>

\* lines 58-59
Rmtree ==
    /\ gen.pc = "rmtree"
    /\ dest' = NoDest
    /\ gen' = [gen EXCEPT !.removed = TRUE, !.pc = "makedirs"]
    /\ UNCHANGED <<total_posts, resp, feed, listing>>
    /\ UNCHANGED <<storeVars, parseVars, renderVars>>

\* line 60
Makedirs ==
    /\ gen.pc = "makedirs"
    /\ dest' = [exists |-> TRUE, files |-> {}]
    /\ GenStep("static_assets")
    /\ UNCHANGED total_posts

\* a step of render() that writes into the destination (lines 162-176)
Write(at, files, next) ==
    /\ gen.pc = at
    /\ dest' = [dest EXCEPT !.files = @ \cup files]
    /\ GenStep(next)
    /\ UNCHANGED total_posts

InitStaticAssets == Write("static_assets", StaticAssets, "top_layers")
RenderTopLayers == Write("top_layers", TopLayers, "posts")
RenderPosts == Write("posts", PostPages(posts), "tags")
RenderTags == Write("tags", TagPages(tags), "build_info")
WriteBuildInfo == Write("build_info", BuildInfo, "done")

NextStatic ==
    \/ \E d \in Dirs : GenLoadPosts(d)
    \/ ClearTags
    \/ CloseIndex
    \/ ListDir
    \/ ListDirFails
    \/ \E f \in Filenames : LoadFile(f)
    \/ BuildTags
    \/ LoadData
    \/ \E remove \in Answers : AskRemove(remove)
    \/ AskRemoveFails
    \/ NoQuestion
    \/ Rmtree
    \/ Makedirs
    \/ InitStaticAssets
    \/ RenderTopLayers
    \/ RenderPosts
    \/ RenderTags
    \/ WriteBuildInfo

SpecStatic == InitStatic /\ [][NextStatic]_vars

\* remove_existing was passed, or the user has answered "y" or "Y"
Consent == gen.remove_existing \/ (gen.asked /\ gen.answer \in {<<"y">>, <<"Y">>})

\* C11: a destination directory that exists when the run starts is removed only
\* if remove_existing was passed or the user answered "y" or "Y" at the prompt;
\* otherwise the directory and its contents stay as they were, no step that
\* removes, creates, renders or writes is ever reached, and an answer other
\* than "y"/"Y" ends the run.
C11_RemovalNeedsConsent ==
    /\ gen.removed => Consent
    /\ (gen.prior.exists /\ ~Consent) =>
          /\ dest = gen.prior
          /\ gen.pc \in {"load_data", "init_dist_dir", "exit", "error"}
          /\ gen.asked => gen.pc = "exit"
\* posts were loaded, the earlier build is there, the user typed "yes": the run
\* has ended and the earlier build is untouched
C11_Witness ==
    /\ gen.prior.files = EarlierBuild
    /\ ~gen.remove_existing
    /\ gen.asked
    /\ gen.answer = <<"y", "e", "s">>
    /\ gen.pc = "exit"
    /\ dest.files = EarlierBuild
    /\ Len(posts) = 2

====
